---------------------------- MODULE Spec2Model ----------------------------
(***************************************************************************)
(* Model of the dependency-analytics extension:                            *)
(*   - calculateMaxDepth          (src/src/core/extension.ts 546-596)      *)
(*   - ParserRegistry, BaseParser (src/unnamed/part_001, part_000)         *)
(*   - activate / startAnalysis / loadExistingDependencies /               *)
(*     refreshAnalysis            (src/src/core/extension.ts 19-539)       *)
(***************************************************************************)
EXTENDS Integers, Sequences, FiniteSets, TLC

VARIABLES
    graph,      \* the argument of calculateMaxDepth
    dfs,        \* the locals of calculateMaxDepth: adjacencyList, visited,
                \* maxDepth, the call stack of dfs, and the position of the
                \* outer forEach
    parsers,    \* ParserRegistry.parsers
    call,       \* the last call made on the registry and what it returned
    currentDependencyGraph,     \* activate's currentDependencyGraph
    allNodes,                   \* activate's allNodes
    treeGraph,                  \* the graph given to dependencyTreeProvider.setGraph
    files,      \* the three snapshot files under .vscode
    workspaceOpen,              \* vscode.workspace.workspaceFolders is not empty
    source,     \* what extraction of the project's sources yields at present
    activated,  \* line 538 of activate has run
    runs,       \* the startAnalysis calls suspended at an await, oldest first
    refreshTimeout,             \* activate's refreshTimeout: 0 for null, else
                                \* the handle setTimeout returned
    timers,     \* the host's pending timers: handle and time left, in ms
    burst,      \* the file-system events seen: whether one occurred, how
                \* many the burst in progress has (2 for more), the time
                \* since the last one, and the startAnalysis calls the
                \* timers have made since
    justReturned                \* the startAnalysis call that returned in the step
                                \* just taken, if one did; file-system events
                                \* that follow it at once leave it in place

depthVars == <<graph, dfs>>
registryVars == <<parsers, call>>
hostVars == <<currentDependencyGraph, allNodes, treeGraph, files>>
timerVars == <<refreshTimeout, timers, burst>>
runVars == <<workspaceOpen, source, activated, runs, refreshTimeout, timers, burst,
             justReturned>>
vars == <<graph, dfs, parsers, call, currentDependencyGraph, allNodes, treeGraph,
          files, workspaceOpen, source, activated, runs, refreshTimeout, timers,
          burst, justReturned>>

---------------------------------------------------------------------------
(* Bounds *)

\* longest edges list of an input graph
MaxEdges == 3
\* call-stack capacity of the engine, in dfs frames
StackLimit == 6
\* most startAnalysis runs suspended at an await at one time
MaxInFlight == 2
\* most parsers registered
MaxParsers == 3
\* the step of the clock, in ms
TickMs == 1000

\* the delay refreshAnalysis gives setTimeout, in ms
DebounceMs == 2000

\* node identifiers of the input graphs
NodeIds == {"A", "B", "C"}

Max(a, b) == IF a >= b THEN a ELSE b

Min(a, b) == IF a <= b THEN a ELSE b

RECURSIVE SeqsUpTo(_, _)
\* all sequences over S of length at most n
SeqsUpTo(S, n) ==
    IF n = 0 THEN {<<>>}
    ELSE LET shorter == SeqsUpTo(S, n - 1)
         IN shorter \cup {Append(s, x) : s \in {t \in shorter : Len(t) = n - 1}, x \in S}

\* sequences over S without repetition
DistinctSeqs(S) ==
    {s \in SeqsUpTo(S, Cardinality(S)) : \A i, j \in 1..Len(s) : i # j => s[i] # s[j]}

Range(s) == {s[i] : i \in 1..Len(s)}

---------------------------------------------------------------------------
(* Graph (converter/types): nodes are represented by their id *)

Edges == [source : NodeIds, target : NodeIds]

\* a Graph value; isNull, nodesMissing and edgesMissing stand for the falsy
\* graph, graph.nodes and graph.edges that line 547 tests for
Graph(nodes, edges) ==
    [isNull |-> FALSE, nodesMissing |-> FALSE, edgesMissing |-> FALSE,
     nodes |-> nodes, edges |-> edges]

NullGraph ==
    [isNull |-> TRUE, nodesMissing |-> TRUE, edgesMissing |-> TRUE,
     nodes |-> <<>>, edges |-> <<>>]

\* the graphs handed to calculateMaxDepth: node lists with distinct ids, any
\* edge list over the identifiers, and the falsy shapes of line 547
GraphInputs ==
    {Graph(ns, es) : ns \in DistinctSeqs(NodeIds), es \in SeqsUpTo(Edges, MaxEdges)}
        \cup {NullGraph}
        \cup {[Graph(ns, <<>>) EXCEPT !.edgesMissing = TRUE] : ns \in DistinctSeqs(NodeIds)}
        \cup {[Graph(<<>>, es) EXCEPT !.nodesMissing = TRUE] : es \in SeqsUpTo(Edges, 1)}

---------------------------------------------------------------------------
(* calculateMaxDepth *)

\* Map.get(k) || []
MapGetOrEmpty(m, k) == IF k \in DOMAIN m THEN m[k] ELSE <<>>

\* Map.set(k, v)
MapSet(m, k, v) == [x \in DOMAIN m \cup {k} |-> IF x = k THEN v ELSE m[x]]

RECURSIVE InitNodes(_, _, _)
\* graph.nodes.forEach(node => adjacencyList.set(node.id, []))
InitNodes(m, nodes, i) ==
    IF i > Len(nodes) THEN m
    ELSE InitNodes(MapSet(m, nodes[i], <<>>), nodes, i + 1)

RECURSIVE AddEdgesKnownSourcesOnly(_, _, _)
\* graph.edges.forEach that skips an edge whose source has no entry
AddEdgesKnownSourcesOnly(m, edges, i) ==
    IF i > Len(edges) THEN m
    ELSE AddEdgesKnownSourcesOnly(
             IF edges[i].source \in DOMAIN m
             THEN MapSet(m, edges[i].source, Append(m[edges[i].source], edges[i].target))
             ELSE m,
             edges, i + 1)

RECURSIVE AddEdges(_, _, _)
\* graph.edges.forEach(edge => { get(source) || []; push(target); set })
AddEdges(m, edges, i) ==
    IF i > Len(edges) THEN m
    ELSE AddEdges(MapSet(m, edges[i].source,
                         Append(MapGetOrEmpty(m, edges[i].source), edges[i].target)),
                  edges, i + 1)

EmptyMap == [x \in {} |-> <<>>]

AdjacencyList(g) == AddEdges(InitNodes(EmptyMap, g.nodes, 1), g.edges, 1)

\* an adjacency list built by taking the edges out of graph.edges one by one
GraphAfterAdjacencyDrained(g) == [g EXCEPT !.edges = <<>>]

\* the graph after lines 551-564: both forEach loops read graph.nodes and
\* graph.edges, and the arrays pushed to are the ones created at lines 556
\* and 561, which belong to adjacencyList
GraphAfterAdjacency(g) == g

\* the locals before calculateMaxDepth is called
NotCalled ==
    [status |-> "notCalled", result |-> -1, adjacencyList |-> EmptyMap,
     visited |-> EmptyMap, maxDepth |-> 0, stack |-> <<>>, next |-> 1]

\* the guard of line 547 without its !graph and !graph.edges tests
EarlyReturnNoNullTest(g) ==
    \/ (~g.isNull /\ ~g.edgesMissing /\ Len(g.edges) = 0)
    \/ (~g.isNull /\ g.nodesMissing)
    \/ (~g.isNull /\ ~g.nodesMissing /\ Len(g.nodes) = 0)

\* the guard of line 547
EarlyReturn(g) ==
    \/ g.isNull
    \/ g.edgesMissing
    \/ Len(g.edges) = 0
    \/ g.nodesMissing
    \/ Len(g.nodes) = 0

\* the locals at line 568, before the first dfs call; past the guard,
\* graph.nodes.forEach or graph.edges.forEach of a missing list raises
\* TypeError
DfsEntry(g) ==
    IF EarlyReturn(g)
    THEN [status |-> "returned", result |-> 0, adjacencyList |-> EmptyMap,
          visited |-> EmptyMap, maxDepth |-> 0, stack |-> <<>>, next |-> 1]
    ELSE IF g.isNull \/ g.nodesMissing \/ g.edgesMissing
    THEN [status |-> "TypeError", result |-> -1, adjacencyList |-> EmptyMap,
          visited |-> EmptyMap, maxDepth |-> 0, stack |-> <<>>, next |-> 1]
    ELSE [status |-> "running", result |-> -1, adjacencyList |-> AdjacencyList(g),
          visited |-> EmptyMap, maxDepth |-> 0, stack |-> <<>>, next |-> 1]

\* line 573 left out: every call of dfs explores its node
PrunedNever(visited, nodeId, depth) == FALSE

\* line 573 as a plain visited set: visited.has(nodeId)
PrunedVisitedOnly(visited, nodeId, depth) ==
    nodeId \in DOMAIN visited

\* line 573: visited.has(nodeId) && visited.get(nodeId) >= depth
Pruned(visited, nodeId, depth) ==
    nodeId \in DOMAIN visited /\ visited[nodeId] >= depth

\* one call dfs(nodeId, depth), up to the start of its for loop; a call
\* that needs a frame beyond the engine's capacity raises RangeError
DfsCall(d, nodeId, depth) ==
    IF Len(d.stack) >= StackLimit
    THEN [d EXCEPT !.status = "RangeError"]
    ELSE IF Pruned(d.visited, nodeId, depth)
    THEN d
    ELSE [d EXCEPT !.maxDepth = Max(d.maxDepth, depth),
                   !.visited = MapSet(d.visited, nodeId, depth),
                   !.stack = Append(d.stack, [nodeId |-> nodeId, depth |-> depth, i |-> 1])]

\* one step of the traversal: the innermost active dfs call takes its next
\* dependency or returns; with no active call the outer forEach starts the
\* next node or calculateMaxDepth returns maxDepth
DfsStep(d, g) ==
    IF d.stack # <<>>
    THEN LET n == Len(d.stack)
             top == d.stack[n]
             dependencies == MapGetOrEmpty(d.adjacencyList, top.nodeId)
         IN IF top.i <= Len(dependencies)
            THEN DfsCall([d EXCEPT !.stack[n].i = top.i + 1],
                         dependencies[top.i], top.depth + 1)
            ELSE [d EXCEPT !.stack = SubSeq(d.stack, 1, n - 1)]
    ELSE IF d.next <= Len(g.nodes)
    THEN DfsCall([d EXCEPT !.next = d.next + 1], g.nodes[d.next], 0)
    ELSE [d EXCEPT !.status = "returned", !.result = d.maxDepth]

RECURSIVE DfsRun(_, _)
DfsRun(d, g) == IF d.status # "running" THEN d ELSE DfsRun(DfsStep(d, g), g)

\* calculateMaxDepth(graph): [status |-> "returned", result |-> n] or
\* [status |-> "RangeError"]
calculateMaxDepth(g) == DfsRun(DfsEntry(g), g)

---------------------------------------------------------------------------
(* ProjectType, Parser, BaseParser (src/unnamed/part_000) *)

Languages == {"java", "python", "typescript", "go"}

\* ProjectType descriptors the detector may produce
ProjectTypes == {[name |-> l, language |-> l] : l \in Languages}

\* parser objects; JavaParser2 is a second parser of language java
ParserPool ==
    { [name |-> "JavaParser", language |-> "java"],
      [name |-> "PythonParser", language |-> "python"],
      [name |-> "TypeScriptParser", language |-> "typescript"],
      [name |-> "JavaParser2", language |-> "java"] }

\* the project types the detector reports in the runs of startAnalysis: one
\* that a registered parser handles and one that none handles
DetectedProjectTypes == {pt \in ProjectTypes : pt.language \in {"java", "go"}}

\* the null of getParser
NoParser == [name |-> "null", language |-> "null"]

\* language-specific dependencies: declared symbols and their relations
IR(symbols, relations) == [isNull |-> FALSE, symbols |-> symbols, relations |-> relations]

NoIR == [isNull |-> TRUE, symbols |-> <<>>, relations |-> <<>>]

\* what the language-specific extraction of a project may yield: a single
\* symbol, a dependency A -> B, a symbol that depends on itself, and a
\* symbol whose dependency B lies outside the analysed paths
ExtractionIRs ==
    { IR(<<"A">>, <<>>),
      IR(<<"A", "B">>, <<[source |-> "A", target |-> "B"]>>),
      IR(<<"A">>, <<[source |-> "A", target |-> "A"]>>),
      IR(<<"A">>, <<[source |-> "A", target |-> "B"]>>) }

\* errors the extraction step raises
ExtractionErrors == {"unreadable root", "no source files"}

\* the outcome of one parseToLanguageSpecific call
Extractions ==
    {[kind |-> "value", ir |-> ir, error |-> "none"] : ir \in ExtractionIRs}
        \cup {[kind |-> "throws", ir |-> NoIR, error |-> e] : e \in ExtractionErrors}

\* convertDependencies (converter): every symbol becomes a node, every
\* relation an edge, edges to undeclared targets are pruned, order kept
convertDependencies(ir) ==
    Graph(ir.symbols,
          SelectSeq(ir.relations, LAMBDA r : r.target \in Range(ir.symbols)))

\* a call made while a parse is served: the method, the parser it is made
\* on and, for convertDependencies, its argument
Event(op, parser, arg) == [op |-> op, parser |-> parser, arg |-> arg]

\* the settled promise of a parse call together with the calls it made
Resolved(g, events) ==
    [kind |-> "graph", graph |-> g, error |-> "none", events |-> events]

Rejected(e, events) ==
    [kind |-> "error", graph |-> NullGraph, error |-> e, events |-> events]

\* BaseParser.canHandle that accepts every project type
canHandleAlways(parser, projectType) == TRUE

\* BaseParser.canHandle
canHandle(parser, projectType) == projectType.language = parser.language

\* canHandle that remembers the language it was last asked about as the
\* parser's own
canHandleCallRemembering(parser, projectType) ==
    [result |-> canHandle(parser, projectType),
     parser |-> [parser EXCEPT !.language = projectType.language],
     projectType |-> projectType]

\* a call parser.canHandle(projectType): the value returned, and the
\* parser and the project type as the call leaves them; line 40 reads
\* projectType.language and this.language and assigns nothing
canHandleCall(parser, projectType) ==
    [result |-> canHandle(parser, projectType),
     parser |-> parser,
     projectType |-> projectType]

\* BaseParser.parse that converts whatever extraction left, also after it
\* failed
BaseParser_parseConvertsAnyway(parser, projectType, extraction) ==
    Resolved(convertDependencies(extraction.ir),
             << Event("parseToLanguageSpecific", parser, NoIR),
                Event("convertDependencies", parser, extraction.ir) >>)

\* BaseParser.parse: await parseToLanguageSpecific, then convertDependencies
BaseParser_parse(parser, projectType, extraction) ==
    IF extraction.kind = "throws"
    THEN Rejected(extraction.error,
                  <<Event("parseToLanguageSpecific", parser, NoIR)>>)
    ELSE Resolved(convertDependencies(extraction.ir),
                  << Event("parseToLanguageSpecific", parser, NoIR),
                     Event("convertDependencies", parser, extraction.ir) >>)

---------------------------------------------------------------------------
(* ParserRegistry (src/unnamed/part_001) *)

\* registerParser that puts the new parser in front of the others
registerParserPrepending(ps, parser) == <<parser>> \o ps

\* registerParser
registerParser(ps, parser) == Append(ps, parser)

\* this.parsers as getParser leaves it: the loop of lines 26-30 reads the
\* array and calls canHandle, and assigns nothing
ParsersAfterGetParser(ps, projectType) == ps

RECURSIVE getParserFrom(_, _, _)
\* the for loop of getParser from position i on
getParserFrom(ps, projectType, i) ==
    IF i > Len(ps) THEN NoParser
    ELSE IF canHandle(ps[i], projectType) THEN ps[i]
    ELSE getParserFrom(ps, projectType, i + 1)

RECURSIVE getParserLastFrom(_, _, _, _)
\* a loop that keeps looking after a match and so returns the last one
getParserLastFrom(ps, projectType, i, found) ==
    IF i > Len(ps) THEN found
    ELSE getParserLastFrom(ps, projectType, i + 1,
                           IF canHandle(ps[i], projectType) THEN ps[i] ELSE found)

getParserLast(ps, projectType) == getParserLastFrom(ps, projectType, 1, NoParser)

\* getParser
getParser(ps, projectType) == getParserFrom(ps, projectType, 1)

NoParserError == "No parser available for project type"

\* ParserRegistry.parse that answers a missing parser with an empty graph
ParserRegistry_parseSwallows(ps, projectType, extraction) ==
    LET parser == getParser(ps, projectType)
    IN IF parser = NoParser
       THEN [kind |-> "graph", graph |-> Graph(<<>>, <<>>), error |-> "none",
             events |-> <<>>, logged |-> "completed"]
       ELSE LET r == BaseParser_parse(parser, projectType, extraction)
            IN [kind |-> r.kind, graph |-> r.graph, error |-> r.error,
                events |-> <<Event("parse", parser, NoIR)>> \o r.events,
                logged |-> IF r.kind = "graph" THEN "completed" ELSE "failed"]

\* ParserRegistry.parse that calls the parser a second time when it failed
ParserRegistry_parseRetries(ps, projectType, extraction) ==
    LET parser == getParser(ps, projectType)
    IN IF parser = NoParser
       THEN [kind |-> "error", graph |-> NullGraph, error |-> NoParserError,
             events |-> <<>>, logged |-> "none"]
       ELSE LET r == BaseParser_parse(parser, projectType, extraction)
            IN [kind |-> r.kind, graph |-> r.graph, error |-> r.error,
                events |-> IF r.kind = "graph"
                           THEN <<Event("parse", parser, NoIR)>> \o r.events
                           ELSE <<Event("parse", parser, NoIR)>> \o r.events
                                    \o <<Event("parse", parser, NoIR)>> \o r.events,
                logged |-> IF r.kind = "graph" THEN "completed" ELSE "failed"]

\* ParserRegistry.parse; extraction is what the selected parser's
\* parseToLanguageSpecific yields; logged is the [Performance] line written
ParserRegistry_parse(ps, projectType, extraction) ==
    LET parser == getParser(ps, projectType)
    IN IF parser = NoParser
       THEN [kind |-> "error", graph |-> NullGraph, error |-> NoParserError,
             events |-> <<>>, logged |-> "none"]
       ELSE LET r == BaseParser_parse(parser, projectType, extraction)
            IN [kind |-> r.kind, graph |-> r.graph, error |-> r.error,
                events |-> <<Event("parse", parser, NoIR)>> \o r.events,
                logged |-> IF r.kind = "graph" THEN "completed" ELSE "failed"]

---------------------------------------------------------------------------
(* Snapshot files and the state activate closes over *)

\* the content of a snapshot file: absent, unreadable (readJsonFile throws
\* or returns null), a standardized Graph, or language-specific or legacy
\* data
Absent == [kind |-> "absent", graph |-> NullGraph, ir |-> NoIR]
Unreadable(k) == [kind |-> k, graph |-> NullGraph, ir |-> NoIR]
StandardContent(g) == [kind |-> "standard", graph |-> g, ir |-> NoIR]
LanguageContent(ir) == [kind |-> "language", graph |-> NullGraph, ir |-> ir]
LegacyContent(ir) == [kind |-> "legacy", graph |-> NullGraph, ir |-> ir]

NoData(c) == c.kind \in {"absent", "throws", "null"}

\* an array-valued variable that may hold undefined
Array(items) == [isUndefined |-> FALSE, items |-> items]
Undefined == [isUndefined |-> TRUE, items |-> <<>>]

\* currentDependencyGraph.nodes
NodesOf(g) == IF g.nodesMissing THEN Undefined ELSE Array(g.nodes)

\* FileUtils.readJsonFile<Graph>(standardDepsPath): the parsed content
\* taken as a Graph; language-specific or legacy data has no nodes and no
\* edges
ReadAsGraph(c) ==
    IF c.kind = "standard" THEN c.graph
    ELSE [NullGraph EXCEPT !.isNull = FALSE]

\* convertDependencies on the parsed content of a snapshot file
ConvertContent(c) ==
    IF c.kind = "standard" THEN c.graph ELSE convertDependencies(c.ir)

\* the metrics lines after setGraph: allNodes.length and calculateMaxDepth;
\* "none" or the error thrown
MetricsError(g) ==
    IF g.nodesMissing THEN "TypeError"
    ELSE LET status == calculateMaxDepth(g).status
         IN IF status # "returned" THEN status ELSE "none"

Host(g, nodes, tree, fs) ==
    [currentDependencyGraph |-> g, allNodes |-> nodes, treeGraph |-> tree, files |-> fs]

\* lines 63-88 with the snapshot passed through convertDependencies
LoadStandardConverting(h) ==
    LET c == h.files.standard
        g == ReadAsGraph(c)
        h1 == [h EXCEPT !.currentDependencyGraph = g,
                        !.allNodes = NodesOf(g),
                        !.treeGraph = g]
    IN IF NoData(c) THEN [host |-> h, returned |-> FALSE, events |-> <<>>]
       ELSE [host |-> h1, returned |-> MetricsError(g) = "none",
             events |-> <<Event("convertDependencies", NoParser, c.ir)>>]

\* lines 63-88: the standardized snapshot; events: the calls of
\* convertDependencies made
LoadStandard(h) ==
    LET c == h.files.standard
        g == ReadAsGraph(c)
        h1 == [h EXCEPT !.currentDependencyGraph = g,
                        !.allNodes = NodesOf(g),
                        !.treeGraph = g]
    IN IF NoData(c) THEN [host |-> h, returned |-> FALSE, events |-> <<>>]
       ELSE [host |-> h1, returned |-> MetricsError(g) = "none", events |-> <<>>]

\* lines 92-121 and 125-154: a language-specific or legacy snapshot c
LoadConverted(h, c, writeOk) ==
    LET g == ConvertContent(c)
        h1 == [h EXCEPT !.currentDependencyGraph = g]
        h2 == [h1 EXCEPT !.files.standard = StandardContent(g),
                         !.allNodes = NodesOf(g),
                         !.treeGraph = g]
        converted == <<Event("convertDependencies", NoParser, c.ir)>>
    IN IF NoData(c) THEN [host |-> h, returned |-> FALSE, events |-> <<>>]
       ELSE IF ~writeOk THEN [host |-> h1, returned |-> FALSE, events |-> converted]
       ELSE [host |-> h2, returned |-> MetricsError(g) = "none", events |-> converted]

\* the snapshot files in the order of the blocks of lines 63, 92 and 125
SnapshotOrder == <<"standard", "language", "legacy">>

\* loadExistingDependencies with the legacy block before the
\* language-specific one
loadExistingDependenciesLegacyFirst(h, wsOpen, writeOk) ==
    IF ~wsOpen
    THEN [host |-> h, returned |-> FALSE, events |-> <<>>, from |-> "none",
          examined |-> <<>>]
    ELSE LET std == LoadStandard(h)
             legacy == LoadConverted(std.host, std.host.files.legacy, writeOk)
             lang == LoadConverted(legacy.host, legacy.host.files.language, writeOk)
         IN IF std.returned
            THEN [host |-> std.host, returned |-> TRUE, events |-> std.events,
                  from |-> "standard", examined |-> <<"standard">>]
            ELSE IF legacy.returned
            THEN [host |-> legacy.host, returned |-> TRUE,
                  events |-> std.events \o legacy.events, from |-> "legacy",
                  examined |-> <<"standard", "legacy">>]
            ELSE [host |-> lang.host, returned |-> lang.returned,
                  events |-> std.events \o legacy.events \o lang.events,
                  from |-> IF lang.returned THEN "language" ELSE "none",
                  examined |-> <<"standard", "legacy", "language">>]

\* loadExistingDependencies; writeOk: fs.writeFileSync does not throw;
\* from: the snapshot whose block returned true; examined: the snapshots
\* fs.existsSync was asked about, in the order of the calls
loadExistingDependencies(h, wsOpen, writeOk) ==
    IF ~wsOpen
    THEN [host |-> h, returned |-> FALSE, events |-> <<>>, from |-> "none",
          examined |-> <<>>]
    ELSE LET std == LoadStandard(h)
             lang == LoadConverted(std.host, std.host.files.language, writeOk)
             legacy == LoadConverted(lang.host, lang.host.files.legacy, writeOk)
         IN IF std.returned
            THEN [host |-> std.host, returned |-> TRUE, events |-> std.events,
                  from |-> "standard", examined |-> SubSeq(SnapshotOrder, 1, 1)]
            ELSE IF lang.returned
            THEN [host |-> lang.host, returned |-> TRUE,
                  events |-> std.events \o lang.events, from |-> "language",
                  examined |-> SubSeq(SnapshotOrder, 1, 2)]
            ELSE [host |-> legacy.host, returned |-> legacy.returned,
                  events |-> std.events \o lang.events \o legacy.events,
                  from |-> IF legacy.returned THEN "legacy" ELSE "none",
                  examined |-> SnapshotOrder]

\* the try block of startAnalysis writing the graph it finds in
\* currentDependencyGraph before the parse result is assigned to it
AnalysisTryWritesBeforeAssigning(h, wsOpen, outcome, writeOk) ==
    LET g == outcome.graph
        h1 == [h EXCEPT !.currentDependencyGraph = g]
        h2 == IF wsOpen
              THEN [h1 EXCEPT !.files.standard = StandardContent(h.currentDependencyGraph)]
              ELSE h1
        h3 == [h2 EXCEPT !.allNodes = NodesOf(g), !.treeGraph = g]
    IN IF outcome.kind = "error" THEN [host |-> h, error |-> outcome.error]
       ELSE IF wsOpen /\ ~writeOk THEN [host |-> h1, error |-> "write failed"]
       ELSE [host |-> h3, error |-> MetricsError(g)]

\* the try block of startAnalysis from the point where parserRegistry.parse
\* has settled (lines 198-239); error is what the catch block reports
AnalysisTry(h, wsOpen, outcome, writeOk) ==
    LET g == outcome.graph
        h1 == [h EXCEPT !.currentDependencyGraph = g]
        h2 == IF wsOpen THEN [h1 EXCEPT !.files.standard = StandardContent(g)] ELSE h1
        h3 == [h2 EXCEPT !.allNodes = NodesOf(g), !.treeGraph = g]
    IN IF outcome.kind = "error" THEN [host |-> h, error |-> outcome.error]
       ELSE IF wsOpen /\ ~writeOk THEN [host |-> h1, error |-> "write failed"]
       ELSE [host |-> h3, error |-> MetricsError(g)]

---------------------------------------------------------------------------
(* startAnalysis, refreshAnalysis and the events that drive them *)

NoProjectType == [name |-> "null", language |-> "null"]

\* no file-system event has occurred yet
NoBurst == [active |-> FALSE, events |-> 0, sinceEvent |-> 0, starts |-> 0]

\* trigger: what called startAnalysis when the call returned without being
\* suspended, "resumed" when it returned after an await; events: the calls
\* made by parserRegistry.parse or, in a call that loaded a snapshot, by
\* loadExistingDependencies; loadedFrom: the snapshot loaded; installed: the
\* call gave currentDependencyGraph, allNodes or the tree view a new value;
\* wrote: the call gave a snapshot file a new content; examined: the
\* snapshots a call that loaded one asked fs.existsSync about; steps: the
\* steps of startAnalysis the call invoked, in order; position: the place
\* a call that completed its analysis had, in the order of the requests,
\* among the calls in flight when it returned, 0 for any other call
NoRun ==
    [trigger |-> "none", outcome |-> "none", message |-> "none", error |-> "none",
     projectType |-> NoProjectType, events |-> <<>>,
     installed |-> FALSE, wrote |-> FALSE, loadedFrom |-> "none",
     examined |-> <<>>, steps |-> <<>>, position |-> 0]

Returned(trigger, outcome, message, error, projectType, events, installed, wrote) ==
    [trigger |-> trigger, outcome |-> outcome, message |-> message, error |-> error,
     projectType |-> projectType, events |-> events,
     installed |-> installed, wrote |-> wrote, loadedFrom |-> "none",
     examined |-> <<>>, steps |-> <<>>, position |-> 0]

\* h differs from the present state in the values activate closes over
Installs(h) ==
    \/ h.currentDependencyGraph # currentDependencyGraph
    \/ h.allNodes # allNodes
    \/ h.treeGraph # treeGraph

\* h differs from the present state in a snapshot file
Writes(h) == h.files # files

CurrentHost == Host(currentDependencyGraph, allNodes, treeGraph, files)

SetHost(h) ==
    /\ currentDependencyGraph' = h.currentDependencyGraph
    /\ allNodes' = h.allNodes
    /\ treeGraph' = h.treeGraph
    /\ files' = h.files

RemoveAt(seq, i) == SubSeq(seq, 1, i - 1) \o SubSeq(seq, i + 1, Len(seq))

\* extraction never took place
NoExtraction == [kind |-> "none", ir |-> NoIR, error |-> "none"]

\* the steps of startAnalysis in the order of lines 166, 175, 185 and 198
StepOrder ==
    <<"loadExistingDependencies", "selectRootFolder", "detectProjectType",
      "parserRegistry.parse">>

\* startAnalysis that goes on to selectRootFolder whatever
\* loadExistingDependencies returned
StartAnalysisIgnoringLoad(trigger) ==
    \E writeOk \in BOOLEAN :
        LET r == loadExistingDependencies(CurrentHost, workspaceOpen, writeOk)
        IN /\ SetHost(r.host)
           /\ runs' = Append(runs, [pc |-> "selectRootFolder",
                                    projectType |-> NoProjectType,
                                    installed |-> Installs(r.host),
                                    wrote |-> Writes(r.host),
                                    loaded |-> r.returned,
                                    steps |-> SubSeq(StepOrder, 1, 2)])
           /\ justReturned' = NoRun

\* startAnalysis is called (lines 160-175): loadExistingDependencies runs
\* to its end, then the call returns or is suspended at selectRootFolder;
\* loaded: what loadExistingDependencies returned to the suspended call
StartAnalysis(trigger) ==
    \E writeOk \in BOOLEAN :
        LET r == loadExistingDependencies(CurrentHost, workspaceOpen, writeOk)
        IN /\ SetHost(r.host)
           /\ IF r.returned
              THEN /\ justReturned' =
                        [Returned(trigger, "loaded",
                                  "info: Loaded existing dependency analysis.",
                                  "none", NoProjectType, r.events,
                                  Installs(r.host), Writes(r.host))
                            EXCEPT !.loadedFrom = r.from,
                                   !.examined = r.examined,
                                   !.steps = SubSeq(StepOrder, 1, 1)]
                   /\ runs' = runs
              ELSE /\ runs' = Append(runs, [pc |-> "selectRootFolder",
                                            projectType |-> NoProjectType,
                                            installed |-> Installs(r.host),
                                            wrote |-> Writes(r.host),
                                            loaded |-> r.returned,
                                            steps |-> SubSeq(StepOrder, 1, 2)])
                   /\ justReturned' = NoRun

\* the settled parserRegistry.parse is handled by the rest of the try block
\* or by the catch block, and startAnalysis returns (lines 198-240)
FinishAnalysis(i, projectType, outcome) ==
    \E writeOk \in BOOLEAN :
        LET r == AnalysisTry(CurrentHost, workspaceOpen, outcome, writeOk)
        IN /\ SetHost(r.host)
           /\ runs' = RemoveAt(runs, i)
           /\ justReturned' =
                [Returned("resumed",
                          IF r.error = "none" THEN "completed" ELSE "failed",
                          IF r.error = "none"
                          THEN "info: Dependency analysis completed"
                          ELSE "error: Error analyzing dependencies",
                          r.error, projectType, outcome.events,
                          runs[i].installed \/ Installs(r.host),
                          runs[i].wrote \/ Writes(r.host))
                    EXCEPT !.position = IF r.error = "none" THEN i ELSE 0,
                           !.steps = IF runs[i].pc = "parse"
                                     THEN runs[i].steps
                                     ELSE Append(runs[i].steps, StepOrder[4])]

\* line 538: activate starts the first analysis
ActivationStartAnalysis ==
    /\ ~activated
    /\ activated' = TRUE
    /\ StartAnalysis("activation")
    /\ UNCHANGED <<workspaceOpen, source, timerVars>>

\* line 245: the dependencyAnalytics.startAnalysis command
CommandStartAnalysis ==
    /\ activated
    /\ Len(runs) < MaxInFlight
    /\ StartAnalysis("command")
    /\ UNCHANGED <<workspaceOpen, source, activated, timerVars>>

\* the commands package.json contributes (lines 24-51)
ContributedCommands ==
    { "dependencyAnalytics.startAnalysis",
      "dependencyAnalytics.refreshAnalysis",
      "dependencyAnalytics.showClassDetails",
      "dependencyAnalytics.navigateToDeclaration",
      "dependencyAnalytics.showClassDiagram" }

\* the commands activate registers a handler for (lines 245, 248, 254, 328,
\* 424 and 511)
RegisteredCommands ==
    { "dependencyAnalytics.startAnalysis",
      "dependencyAnalytics.showNodeDetails",
      "dependencyAnalytics.showClassDiagram",
      "dependencyAnalytics.openSourceFile",
      "dependencyAnalytics.revealInFileTree",
      "dependencyAnalytics.navigateToSource" }

\* the user invokes a contributed command other than startAnalysis while
\* no analysis is in flight and no refresh is pending: a registered
\* handler runs (that of showClassDiagram reads the graph and assigns
\* nothing, lines 254-327); without a handler the host reports that the
\* command was not found, and nothing else happens
InvokeCommand ==
    /\ activated
    /\ runs = <<>>
    /\ timers = <<>>
    /\ \E c \in ContributedCommands \ {"dependencyAnalytics.startAnalysis"} :
         justReturned' =
            IF c \in RegisteredCommands
            THEN [NoRun EXCEPT !.trigger = c, !.outcome = "handled"]
            ELSE [NoRun EXCEPT !.trigger = c, !.outcome = "commandNotFound",
                               !.message = "error: command not found"]
    /\ UNCHANGED <<hostVars, workspaceOpen, source, activated, runs, timerVars>>

\* what extraction of the project's sources may yield while the extension
\* runs: a dependency A -> B or the reverse dependency B -> A
SourceIRs ==
    { IR(<<"A", "B">>, <<[source |-> "A", target |-> "B"]>>),
      IR(<<"A", "B">>, <<[source |-> "B", target |-> "A"]>>) }

\* clearTimeout that leaves the timer pending
clearTimeoutNoop(ts, handle) == ts

\* clearTimeout(handle): the pending timer with that handle, if there is
\* one, is removed
clearTimeout(ts, handle) == SelectSeq(ts, LAMBDA t : t.id # handle)

\* a handle no pending timer has
FreshHandle(ts) ==
    CHOOSE id \in 1..(Len(ts) + 1) : \A k \in 1..Len(ts) : ts[k].id # id

\* setTimeout(callback, delay): a new pending timer; its handle is
\* FreshHandle(ts)
setTimeout(ts, delay) == Append(ts, [id |-> FreshHandle(ts), remaining |-> delay])

\* lines 521-533: a watched source file changes, is created or deleted;
\* refreshAnalysis clears the pending timer, if refreshTimeout holds a
\* handle, and sets a new one of DebounceMs
FileSystemEvent ==
    /\ activated
    /\ \E ir \in SourceIRs \ {source} : source' = ir
    /\ LET cleared == IF refreshTimeout # 0
                      THEN clearTimeout(timers, refreshTimeout)
                      ELSE timers
       IN /\ refreshTimeout' = FreshHandle(cleared)
          /\ timers' = setTimeout(cleared, DebounceMs)
    /\ burst' = [active |-> TRUE,
                 events |-> IF burst.active /\ burst.starts = 0
                            THEN Min(burst.events + 1, 2)
                            ELSE 1,
                 sinceEvent |-> 0,
                 starts |-> 0]
    /\ UNCHANGED <<hostVars, workspaceOpen, activated, runs, justReturned>>

\* lines 526-528: a timer set by refreshAnalysis has run its delay and its
\* callback calls startAnalysis
RefreshTimerFires ==
    /\ Len(runs) < MaxInFlight
    /\ \E k \in 1..Len(timers) :
         /\ timers[k].remaining = 0
         /\ timers' = RemoveAt(timers, k)
    /\ burst' = [burst EXCEPT !.starts = Min(burst.starts + 1, 2)]
    /\ StartAnalysis("watcher")
    /\ UNCHANGED <<workspaceOpen, source, activated, refreshTimeout>>

\* TickMs of time pass; a timer that has run its delay fires before more
\* time passes
Tick ==
    /\ activated
    /\ \A k \in 1..Len(timers) : timers[k].remaining > 0
    /\ timers' = [k \in 1..Len(timers) |->
                    [timers[k] EXCEPT !.remaining = Max(timers[k].remaining - TickMs, 0)]]
    /\ burst' = IF burst.active
                THEN [burst EXCEPT !.sinceEvent = Min(burst.sinceEvent + TickMs,
                                                      DebounceMs + TickMs)]
                ELSE burst
    /\ justReturned' = NoRun
    /\ UNCHANGED <<hostVars, workspaceOpen, source, activated, runs, refreshTimeout>>

\* lines 175-185: selectRootFolder settles
RootFolderSelected(i) ==
    /\ runs[i].pc = "selectRootFolder"
    /\ \/ /\ runs' = [runs EXCEPT ![i].pc = "detectProjectType",
                                   ![i].steps = Append(@, StepOrder[3])]
          /\ justReturned' = NoRun
       \/ /\ runs' = RemoveAt(runs, i)
          /\ justReturned' = [Returned("resumed", "noFolder",
                                       "error: No folder selected for analysis.",
                                       "none", NoProjectType, <<>>,
                                       runs[i].installed, runs[i].wrote)
                                 EXCEPT !.steps = runs[i].steps]
    /\ UNCHANGED <<hostVars, workspaceOpen, source, activated, timerVars>>

\* lines 185-198: detectProjectType settles; with a project type
\* parserRegistry.parse is called, which rejects at once when no parser
\* accepts it and otherwise awaits the parser
ProjectTypeDetected(i) ==
    /\ runs[i].pc = "detectProjectType"
    /\ \/ /\ runs' = RemoveAt(runs, i)
          /\ justReturned' = [Returned("resumed", "noProjectType",
                                       "error: Could not detect project type.",
                                       "none", NoProjectType, <<>>,
                                       runs[i].installed, runs[i].wrote)
                                 EXCEPT !.steps = runs[i].steps]
          /\ UNCHANGED hostVars
       \/ \E pt \in DetectedProjectTypes :
            IF getParser(parsers, pt) = NoParser
            THEN FinishAnalysis(i, pt, ParserRegistry_parse(parsers, pt, NoExtraction))
            ELSE /\ runs' = [runs EXCEPT ![i].pc = "parse", ![i].projectType = pt,
                                          ![i].steps = Append(@, StepOrder[4])]
                 /\ justReturned' = NoRun
                 /\ UNCHANGED hostVars
    /\ UNCHANGED <<workspaceOpen, source, activated, timerVars>>

\* the extraction of the project's sources as they are now, or its failure
ExtractionsNow ==
    {[kind |-> "value", ir |-> source, error |-> "none"]}
        \cup {[kind |-> "throws", ir |-> NoIR, error |-> e] : e \in ExtractionErrors}

\* lines 198-240: parserRegistry.parse settles
ParseSettled(i) ==
    /\ runs[i].pc = "parse"
    /\ \E extraction \in ExtractionsNow :
         FinishAnalysis(i, runs[i].projectType,
                        ParserRegistry_parse(parsers, runs[i].projectType, extraction))
    /\ UNCHANGED <<workspaceOpen, source, activated, timerVars>>

\* the parsers activate registers (lines 34-37)
ActivatedParsers ==
    registerParser(
        registerParser(
            registerParser(<<>>, [name |-> "JavaParser", language |-> "java"]),
            [name |-> "PythonParser", language |-> "python"]),
        [name |-> "TypeScriptParser", language |-> "typescript"])

\* given: the receiver and the argument of a canHandle call as they were
\* before it; results: the values its repetitions returned
NoCall ==
    [op |-> "none", projectType |-> NoProjectType, parser |-> NoParser,
     extraction |-> NoExtraction, kind |-> "none", graph |-> NullGraph,
     error |-> "none", events |-> <<>>, logged |-> "none",
     given |-> [parser |-> NoParser, projectType |-> NoProjectType],
     results |-> <<>>]

\* snapshot files a workspace may hold when the extension is activated;
\* standard-dependencies.json may hold the graph A -> B, a graph with a
\* cycle, a graph with an edge to an id that is not a node, or data of the
\* language-specific shape
InitialFiles ==
    {f \in [standard : {Absent,
                        StandardContent(Graph(<<"A", "B">>, <<[source |-> "A", target |-> "B"]>>)),
                        StandardContent(Graph(<<"A">>, <<[source |-> "A", target |-> "A"]>>)),
                        StandardContent(Graph(<<"A">>, <<[source |-> "A", target |-> "B"]>>)),
                        LanguageContent(IR(<<"A">>, <<[source |-> "A", target |-> "B"]>>))},
             language : {Absent,
                         LanguageContent(IR(<<"A", "B">>, <<[source |-> "B", target |-> "A"]>>))},
             legacy : {Absent, LegacyContent(IR(<<"B">>, <<>>))}] :
        \/ f.standard = Absent
        \/ f.language = Absent /\ f.legacy = Absent
        \/ /\ f.standard = StandardContent(Graph(<<"A", "B">>,
                                                  <<[source |-> "A", target |-> "B"]>>))
           /\ f.language # Absent
           /\ f.legacy # Absent
        \/ /\ f.standard = StandardContent(Graph(<<"A">>,
                                                  <<[source |-> "A", target |-> "A"]>>))
           /\ f.language # Absent
           /\ f.legacy = Absent}

\* no snapshot files
NoFiles == [standard |-> Absent, language |-> Absent, legacy |-> Absent]

\* activate has run up to line 537
Init ==
    /\ graph = NullGraph
    /\ dfs = NotCalled
    /\ parsers = ActivatedParsers
    /\ call = NoCall
    /\ currentDependencyGraph = NullGraph
    /\ allNodes = Array(<<>>)
    /\ treeGraph = NullGraph
    /\ files \in InitialFiles
    /\ workspaceOpen \in BOOLEAN
    /\ ~workspaceOpen => files = NoFiles
    /\ source \in SourceIRs
    /\ activated = FALSE
    /\ runs = <<>>
    /\ refreshTimeout = 0
    /\ timers = <<>>
    /\ burst = NoBurst
    /\ justReturned = NoRun

\* a step of the extension: a call of startAnalysis, another command, a file-system event,
\* the refresh timer, or the settling of a promise a call awaits
Next ==
    \/ ActivationStartAnalysis /\ UNCHANGED <<depthVars, registryVars>>
    \/ CommandStartAnalysis /\ UNCHANGED <<depthVars, registryVars>>
    \/ InvokeCommand /\ UNCHANGED <<depthVars, registryVars>>
    \/ FileSystemEvent /\ UNCHANGED <<depthVars, registryVars>>
    \/ RefreshTimerFires /\ UNCHANGED <<depthVars, registryVars>>
    \/ Tick /\ UNCHANGED <<depthVars, registryVars>>
    \/ \E i \in 1..Len(runs) :
            RootFolderSelected(i) /\ UNCHANGED <<depthVars, registryVars>>
    \/ \E i \in 1..Len(runs) :
            ProjectTypeDetected(i) /\ UNCHANGED <<depthVars, registryVars>>
    \/ \E i \in 1..Len(runs) :
            ParseSettled(i) /\ UNCHANGED <<depthVars, registryVars>>

Spec == Init /\ [][Next]_vars

---------------------------------------------------------------------------
(* The registry under any sequence of registerParser calls: activate with
   the calls of lines 35-37 replaced by arbitrary ones, the registry
   exercised once after each registration, then analyses run one at a
   time *)

Called(op, projectType, parser, extraction, r) ==
    [op |-> op, projectType |-> projectType, parser |-> parser,
     extraction |-> extraction, kind |-> r.kind, graph |-> r.graph,
     error |-> r.error, events |-> r.events, logged |-> r.logged,
     given |-> [parser |-> NoParser, projectType |-> NoProjectType],
     results |-> <<>>]

NoResult ==
    [kind |-> "none", graph |-> NullGraph, error |-> "none", events |-> <<>>,
     logged |-> "none"]

InitRegistry ==
    /\ graph = NullGraph
    /\ dfs = NotCalled
    /\ parsers = <<>>
    /\ call = NoCall
    /\ currentDependencyGraph = NullGraph
    /\ allNodes = Array(<<>>)
    /\ treeGraph = NullGraph
    /\ files = [standard |-> Absent, language |-> Absent, legacy |-> Absent]
    /\ workspaceOpen = TRUE
    /\ source = IR(<<"A", "B">>, <<[source |-> "A", target |-> "B"]>>)
    /\ activated = FALSE
    /\ runs = <<>>
    /\ refreshTimeout = 0
    /\ timers = <<>>
    /\ burst = NoBurst
    /\ justReturned = NoRun

\* parserRegistry.registerParser(parser)
RegisterParser ==
    /\ ~activated
    /\ Len(parsers) < MaxParsers
    /\ \E parser \in ParserPool :
         /\ parsers' = registerParser(parsers, parser)
         /\ call' = Called("registerParser", NoProjectType, parser, NoExtraction, NoResult)
    /\ UNCHANGED <<depthVars, hostVars, runVars>>

\* parserRegistry.getParser(projectType)
GetParser ==
    /\ ~activated
    /\ call.op \in {"none", "registerParser"}
    /\ \E pt \in ProjectTypes :
         /\ call' = Called("getParser", pt, getParser(parsers, pt), NoExtraction,
                           NoResult)
         /\ parsers' = ParsersAfterGetParser(parsers, pt)
    /\ UNCHANGED <<depthVars, hostVars, runVars>>

\* parser.canHandle(projectType), twice in a row, on a parser of the pool,
\* registered or not; the registry holds the parser object itself
CanHandle ==
    /\ ~activated
    /\ call.op \in {"none", "registerParser"}
    /\ \E parser \in ParserPool, pt \in ProjectTypes :
         LET first == canHandleCall(parser, pt)
             second == canHandleCall(first.parser, first.projectType)
         IN /\ call' = [Called("canHandle", second.projectType, second.parser,
                               NoExtraction, NoResult)
                           EXCEPT !.given = [parser |-> parser, projectType |-> pt],
                                  !.results = <<first.result, second.result>>]
            /\ parsers' = [k \in 1..Len(parsers) |->
                             IF parsers[k] = parser THEN second.parser ELSE parsers[k]]
    /\ UNCHANGED <<depthVars, hostVars, runVars>>

\* parser.parse(projectType) on a parser of the pool, to its settling
ParserParse ==
    /\ ~activated
    /\ call.op \in {"none", "registerParser"}
    /\ \E parser \in ParserPool, pt \in ProjectTypes, extraction \in Extractions :
         LET r == BaseParser_parse(parser, pt, extraction)
         IN call' = Called("Parser.parse", pt, parser, extraction,
                           [kind |-> r.kind, graph |-> r.graph, error |-> r.error,
                            events |-> r.events, logged |-> "none"])
    /\ UNCHANGED <<depthVars, parsers, hostVars, runVars>>

\* parserRegistry.parse(projectType), to its settling
RegistryParse ==
    /\ ~activated
    /\ call.op \in {"none", "registerParser"}
    /\ \E pt \in ProjectTypes, extraction \in Extractions :
         /\ call' = Called("parse", pt, getParser(parsers, pt),
                           IF getParser(parsers, pt) = NoParser THEN NoExtraction
                           ELSE extraction,
                           ParserRegistry_parse(parsers, pt,
                               IF getParser(parsers, pt) = NoParser THEN NoExtraction
                               ELSE extraction))
         /\ parsers' = ParsersAfterGetParser(parsers, pt)
    /\ UNCHANGED <<depthVars, hostVars, runVars>>

NextRegistry ==
    \/ RegisterParser
    \/ GetParser
    \/ CanHandle
    \/ ParserParse
    \/ RegistryParse
    \/ ActivationStartAnalysis /\ call' = NoCall /\ UNCHANGED <<depthVars, parsers>>
    \/ runs = <<>> /\ CommandStartAnalysis /\ UNCHANGED <<depthVars, registryVars>>
    \/ \E i \in 1..Len(runs) :
            RootFolderSelected(i) /\ UNCHANGED <<depthVars, registryVars>>
    \/ \E i \in 1..Len(runs) :
            ProjectTypeDetected(i) /\ UNCHANGED <<depthVars, registryVars>>
    \/ \E i \in 1..Len(runs) :
            ParseSettled(i) /\ UNCHANGED <<depthVars, registryVars>>

SpecRegistry == InitRegistry /\ [][NextRegistry]_vars

---------------------------------------------------------------------------
(* Specification of calculateMaxDepth on every input graph *)

\* the variables of the extension at rest
HostAtRest ==
    /\ parsers = ActivatedParsers
    /\ call = NoCall
    /\ currentDependencyGraph = NullGraph
    /\ allNodes = Array(<<>>)
    /\ treeGraph = NullGraph
    /\ files = [standard |-> Absent, language |-> Absent, legacy |-> Absent]
    /\ workspaceOpen = TRUE
    /\ source = IR(<<"A">>, <<>>)
    /\ activated = FALSE
    /\ runs = <<>>
    /\ refreshTimeout = 0
    /\ timers = <<>>
    /\ burst = NoBurst
    /\ justReturned = NoRun

InitDepth ==
    /\ graph \in GraphInputs
    /\ dfs = NotCalled
    /\ HostAtRest

\* calculateMaxDepth is entered: lines 547-568
DepthEnter ==
    /\ dfs.status = "notCalled"
    /\ dfs' = DfsEntry(graph)
    /\ graph' = IF DfsEntry(graph).status = "running"
                THEN GraphAfterAdjacency(graph)
                ELSE graph
    /\ UNCHANGED <<registryVars, hostVars, runVars>>

\* lines 571-595, one dfs call or return at a time
DepthStep ==
    /\ dfs.status = "running"
    /\ dfs' = DfsStep(dfs, graph)
    /\ UNCHANGED <<graph, registryVars, hostVars, runVars>>

NextDepth == DepthEnter \/ DepthStep

SpecDepth == InitDepth /\ [][NextDepth]_vars

---------------------------------------------------------------------------
(* Reference definitions on the graph as a set of nodes and a set of edges *)

NodeSet(g) == Range(g.nodes)
EdgeSet(g) == Range(g.edges)

WellFormed(g) == ~g.isNull /\ ~g.nodesMissing /\ ~g.edgesMissing

HasDanglingEdge(g) ==
    \E e \in EdgeSet(g) : e.source \notin NodeSet(g) \/ e.target \notin NodeSet(g)

RECURSIVE ReachableIn(_, _, _)
\* the ids reachable from the set S in at most k edges of E (S included)
ReachableIn(S, E, k) ==
    IF k = 0 THEN S
    ELSE ReachableIn(S \cup {e.target : e \in {f \in E : f.source \in S}}, E, k - 1)

Successors(n, E) == {e.target : e \in {f \in E : f.source = n}}

\* some id lies on a directed cycle of E
HasCycle(g) ==
    \E n \in NodeIds :
        n \in ReachableIn(Successors(n, EdgeSet(g)), EdgeSet(g), Cardinality(NodeIds))

SetMax(S) == IF S = {} THEN 0 ELSE CHOOSE x \in S : \A y \in S : x >= y

RECURSIVE LongestFrom(_, _, _)
\* number of edges of the longest directed path of E that starts at n and
\* has at most k edges
LongestFrom(n, E, k) ==
    IF k = 0 \/ Successors(n, E) = {} THEN 0
    ELSE 1 + SetMax({LongestFrom(m, E, k - 1) : m \in Successors(n, E)})

\* number of edges of the longest directed path of an acyclic graph
LongestPath(g) ==
    SetMax({LongestFrom(n, EdgeSet(g), Cardinality(NodeIds)) : n \in NodeSet(g)})

Finished == dfs.status \notin {"notCalled", "running"}

---------------------------------------------------------------------------
(* C1: on a graph that contains a directed cycle calculateMaxDepth
   terminates with a finite value or a cycle signal; its recursion stays
   bounded, so it never exhausts the call stack. *)
C1_CycleTerminates ==
    (WellFormed(graph) /\ HasCycle(graph)) => dfs.status # "RangeError"

(* C9: for every acyclic graph without dangling edges calculateMaxDepth
   returns the number of edges of the longest directed path, whatever the
   order of the nodes list and of the edges list. *)
C9_LongestPath ==
    (Finished /\ WellFormed(graph) /\ ~HasCycle(graph) /\ ~HasDanglingEdge(graph))
        => (dfs.status = "returned" /\ dfs.result = LongestPath(graph))

\* the chain A -> B -> C, listed against the direction of its edges
C9_Witness ==
    /\ dfs.status = "returned"
    /\ graph = Graph(<<"C", "B", "A">>,
                     <<[source |-> "B", target |-> "C"], [source |-> "A", target |-> "B"]>>)
    /\ dfs.result = 2

(* C10: calculateMaxDepth returns 0 for a graph with no nodes, for a graph
   with no edges and for a missing graph, and every value it returns is an
   integer >= 0. *)
C10_ZeroAndNonNegative ==
    /\ (Finished /\ (graph.isNull \/ Len(graph.nodes) = 0 \/ Len(graph.edges) = 0))
          => (dfs.status = "returned" /\ dfs.result = 0)
    /\ dfs.status = "returned" => dfs.result \in Nat

\* a graph of three nodes and no edges has been measured
C10_Witness ==
    /\ dfs.status = "returned"
    /\ ~graph.isNull
    /\ Len(graph.nodes) = 3
    /\ Len(graph.edges) = 0
    /\ dfs.result = 0

(* C11: calculateMaxDepth never mutates the graph: in every step of a
   call, up to its return or its throw, the nodes and the edges of the
   graph keep their contents and their order. *)
C11_GraphNotMutated == [][graph' = graph]_vars

\* a graph of three edges has been measured with a result above 0
C11_Witness ==
    /\ dfs.status = "returned"
    /\ ~graph.isNull
    /\ Len(graph.edges) = 3
    /\ Len(graph.nodes) = 3
    /\ dfs.result = 2

\* the depths recorded in visited
RecordedDepths(d) == {d.visited[n] : n \in DOMAIN d.visited}

\* the graph without the edges whose source is not in nodes
WithoutAbsentSources(g) ==
    [g EXCEPT !.edges = SelectSeq(g.edges, LAMBDA e : e.source \in NodeSet(g))]

\* the traversal starts at listed nodes only: the outermost dfs call, and
\* every id recorded at depth 0, is an id of graph.nodes
StartsAtListedNodes ==
    /\ dfs.stack # <<>> => (dfs.stack[1].depth = 0 /\ dfs.stack[1].nodeId \in NodeSet(graph))
    /\ \A n \in DOMAIN dfs.visited : n \notin NodeSet(graph) => dfs.visited[n] >= 1

(* C28, as stated: for an acyclic graph whose edges reference ids absent
   from nodes, calculateMaxDepth terminates without error, treats an
   absent target id as a node with no outgoing edges, so that it returns
   the longest path of the graph without the edges that leave absent ids,
   and never starts a traversal from an absent id. *)
C28_AbsentTargetIsLeaf ==
    (WellFormed(graph) /\ ~HasCycle(graph) /\ HasDanglingEdge(graph))
        => /\ dfs.status \notin {"RangeError", "TypeError"}
           /\ StartsAtListedNodes
           /\ Finished => dfs.result = LongestPath(WithoutAbsentSources(graph))

(* C28, amended: for an acyclic graph whose edges reference ids absent
   from nodes, calculateMaxDepth terminates without error and never starts
   a traversal from an absent id; an absent id reached as a target adds
   one to the depth, and the edges that name it as their source are
   followed from it as from a listed node: the value returned is the
   number of edges of the longest directed path, over all the edges, that
   starts at a listed node. *)
C28_DanglingDepth ==
    (WellFormed(graph) /\ ~HasCycle(graph) /\ HasDanglingEdge(graph))
        => /\ dfs.status \notin {"RangeError", "TypeError"}
           /\ StartsAtListedNodes
           /\ Finished => (dfs.status = "returned" /\ dfs.result = LongestPath(graph))

\* only A is a node; B, absent, is reached from A and its edge to C is
\* followed
C28_Witness ==
    /\ dfs.status = "returned"
    /\ graph = Graph(<<"A">>,
                     <<[source |-> "A", target |-> "B"], [source |-> "B", target |-> "C"]>>)
    /\ dfs.result = 2
    /\ dfs.visited["C"] = 2

(* C21: during calculateMaxDepth the depth recorded for a node never
   decreases; a node that has a recorded depth is explored again only at a
   depth strictly greater than the recorded one; maxDepth is at every
   moment the largest depth recorded, and it is the value returned. *)
C21_RecordedDepthsGrow ==
    [][/\ \A n \in DOMAIN dfs.visited :
            /\ n \in DOMAIN dfs'.visited
            /\ dfs'.visited[n] >= dfs.visited[n]
       /\ Len(dfs'.stack) > Len(dfs.stack)
            => LET top == dfs'.stack[Len(dfs'.stack)]
               IN /\ dfs'.visited[top.nodeId] = top.depth
                  /\ top.nodeId \in DOMAIN dfs.visited
                        => top.depth > dfs.visited[top.nodeId]
       /\ dfs'.maxDepth = SetMax(RecordedDepths(dfs'))
       /\ dfs'.status = "returned" => dfs'.result = SetMax(RecordedDepths(dfs'))]_vars

\* node C was first recorded at depth 0 and explored again at depth 2
C21_Witness ==
    /\ dfs.status = "returned"
    /\ graph = Graph(<<"C", "B", "A">>,
                     <<[source |-> "A", target |-> "B"], [source |-> "B", target |-> "C"]>>)
    /\ dfs.visited["C"] = 2
    /\ dfs.result = 2

---------------------------------------------------------------------------
(* Claims on startAnalysis and refreshAnalysis *)

(* C2: at no time are two startAnalysis runs in flight at once, whatever
   their trigger: a run requested while another is suspended at an await is
   queued, so overlapping runs never both write the snapshot. *)
C2_SingleRunInFlight == Len(runs) <= 1

(* C12: re-analysis after file-system events is debounced: at most one
   refresh timer is pending at any time; once an event has occurred either
   its timer is still pending or exactly one startAnalysis call has been
   made since the last event, never more; and that call is made no earlier
   than DebounceMs after the last event of the burst. *)
C12_Debounced ==
    /\ Len(timers) <= 1
    /\ burst.starts <= 1
    /\ burst.active => Len(timers) + burst.starts = 1
    /\ ~burst.active => (timers = <<>> /\ burst.starts = 0)
    /\ burst.starts >= 1 => burst.sinceEvent >= DebounceMs
    /\ \A k \in 1..Len(timers) :
          timers[k].remaining + burst.sinceEvent >= DebounceMs

\* a burst of several events has ended and its one startAnalysis call has
\* just been made
C12_Witness ==
    /\ burst.events = 2
    /\ burst.starts = 1
    /\ burst.sinceEvent >= DebounceMs
    /\ timers = <<>>
    /\ runs # <<>>

\* the errors with which parserRegistry.parse rejects
ParseErrors == ExtractionErrors \cup {NoParserError}

\* the step in which a startAnalysis call handles the rejection of
\* parserRegistry.parse (lines 232-239) changes no value and no file
ParseFailureStepChangesNothing ==
    [][(justReturned'.outcome = "failed" /\ justReturned'.error \in ParseErrors)
          => UNCHANGED hostVars]_vars

(* C13: when parserRegistry.parse fails during a startAnalysis call, the
   call ends with an error message, has written no snapshot file, and has
   given no new value to the current graph, allNodes or the tree view in
   any of its steps. *)
C13_ParseFailureLeavesState ==
    (justReturned.outcome = "failed" /\ justReturned.error \in ParseErrors)
    => /\ justReturned.message = "error: Error analyzing dependencies"
       /\ ~justReturned.wrote
       /\ ~justReturned.installed

(* C14: a loadExistingDependencies call that failed, and so returned
   false, has left the current graph, allNodes and the tree view as they
   were: every startAnalysis call that went on past it to its awaits has
   installed nothing. *)
C14_LoadFailureLeavesState ==
    \A i \in 1..Len(runs) : ~runs[i].installed

\* node ids pairwise distinct, every edge between ids of nodes
GraphIntegrity(g) ==
    /\ WellFormed(g)
    /\ \A i, j \in 1..Len(g.nodes) : i # j => g.nodes[i] # g.nodes[j]
    /\ ~HasDanglingEdge(g)

(* C15: every graph installed as the current dependency graph, by a parse,
   by the conversion of a language-specific or legacy snapshot, or by the
   load of a standardized snapshot, has pairwise distinct node ids and
   only edges whose source and target are ids of its nodes. *)
C15_InstalledGraphIntegrity ==
    ~currentDependencyGraph.isNull => GraphIntegrity(currentDependencyGraph)

ConversionOf(ir) == Event("convertDependencies", NoParser, ir)

(* C16: a standardized snapshot becomes the current graph exactly as read,
   without a call of the converter; a language-specific snapshot and a
   legacy snapshot each pass through the converter exactly once, and the
   converter's result is what becomes the current graph. *)
C16_ShapesLoaded ==
    justReturned.outcome = "loaded"
    => /\ justReturned.loadedFrom \in {"standard", "language", "legacy"}
       /\ justReturned.loadedFrom = "standard"
            => /\ justReturned.events = <<>>
               /\ files.standard.kind = "standard"
               /\ currentDependencyGraph = files.standard.graph
       /\ justReturned.loadedFrom = "language"
            => /\ justReturned.events = <<ConversionOf(files.language.ir)>>
               /\ currentDependencyGraph = convertDependencies(files.language.ir)
       /\ justReturned.loadedFrom = "legacy"
            => /\ justReturned.events # <<>>
               /\ justReturned.events[Len(justReturned.events)]
                     = ConversionOf(files.legacy.ir)
               /\ Cardinality({k \in 1..Len(justReturned.events) :
                        justReturned.events[k] = ConversionOf(files.legacy.ir)}) = 1
               /\ currentDependencyGraph = convertDependencies(files.legacy.ir)

\* a legacy snapshot has been converted and loaded
C16_Witness ==
    /\ justReturned.outcome = "loaded"
    /\ justReturned.loadedFrom = "legacy"
    /\ currentDependencyGraph = Graph(<<"B">>, <<>>)

(* C17: the loader goes by the structure of a snapshot's content: content
   of the language-specific or legacy shape found in
   standard-dependencies.json is not installed as the current graph as it
   stands, it is passed through the converter first. *)
C17_StructuralDetection ==
    files.standard.kind \in {"language", "legacy"}
    => currentDependencyGraph # ReadAsGraph(files.standard)

\* standard-dependencies.json holds the current graph
FileIsCurrentGraph ==
    /\ ~NoData(files.standard)
    /\ ReadAsGraph(files.standard) = currentDependencyGraph

(* C18: with a workspace folder open, a startAnalysis call that completes
   after a successful parse, or that loads a converted language-specific
   or legacy snapshot, leaves standard-dependencies.json holding exactly
   the graph that is the current graph; and under every interleaving of
   calls, each step that writes the file writes the graph that is the
   current graph when the step ends. *)
C18_FileIsCurrentGraph ==
    [][/\ (workspaceOpen /\ justReturned'.outcome \in {"completed", "loaded"})
            => (FileIsCurrentGraph' /\ ~currentDependencyGraph'.isNull)
       /\ files'.standard # files.standard
            => files'.standard = StandardContent(currentDependencyGraph')]_vars

\* a call has completed its parse and written the snapshot while another
\* call is still waiting for its own parse
C18_Witness ==
    /\ workspaceOpen
    /\ justReturned.outcome = "completed"
    /\ justReturned.wrote
    /\ \E i \in 1..Len(runs) : runs[i].pc = "parse"
    /\ files.standard = StandardContent(currentDependencyGraph)

\* the step in which a startAnalysis call finds no root folder or no
\* project type (lines 176-192) changes no value and no file
EarlyExitStepChangesNothing ==
    [][justReturned'.outcome \in {"noFolder", "noProjectType"}
          => UNCHANGED hostVars]_vars

(* C19: a startAnalysis call that finds no root folder selected, or no
   supported project type, shows an error message and returns; it has not
   called the parser registry, has written no snapshot file, and has left
   the current graph and allNodes as they were before the call. *)
C19_NoFolderNoTypeLeavesState ==
    justReturned.outcome \in {"noFolder", "noProjectType"}
    => /\ justReturned.message \in {"error: No folder selected for analysis.",
                                     "error: Could not detect project type."}
       /\ justReturned.events = <<>>
       /\ ~justReturned.wrote
       /\ ~justReturned.installed

(* C22: after every load and every run, successful or failed, allNodes is
   the node list of the current graph, empty when no graph is set, and the
   tree view holds that same graph. *)
C22_CacheAgreesWithGraph ==
    /\ allNodes = IF currentDependencyGraph.isNull
                  THEN Array(<<>>)
                  ELSE NodesOf(currentDependencyGraph)
    /\ treeGraph = currentDependencyGraph

(* C23: when two runs overlap and both parses succeed, the graph left as
   the current graph, and in standard-dependencies.json, once both have
   finished is the one the later-requested run produced, whichever parse
   finished last: a run that completes after a run requested later than
   it has completed leaves the graph and the file of that later run. *)
C23_LaterRequestWins ==
    [][(/\ justReturned.outcome = "completed"
        /\ justReturned.position > 0
        /\ Len(runs') < Len(runs)
        /\ justReturned'.outcome = "completed"
        /\ justReturned'.position < justReturned.position)
          => /\ currentDependencyGraph' = currentDependencyGraph
             /\ files'.standard = files.standard]_vars

\* whether the block of each snapshot file returns true on its own
BlockLoads(h, writeOk) ==
    [standard |-> LoadStandard(h).returned,
     language |-> LoadConverted(h, h.files.language, writeOk).returned,
     legacy |-> LoadConverted(h, h.files.legacy, writeOk).returned]

(* C24: loadExistingDependencies examines standard-dependencies.json,
   language-dependencies.json and dependencies.json in that order; it
   returns true at the first one that loads and examines none after it; it
   examines a file only when every file before it is absent, empty or
   failed to load; and it returns false only when none of the three
   loads. It is stated of the call made in any reachable state, and of the
   call that has just returned after loading. *)
C24_FixedOrder ==
    /\ \A writeOk \in BOOLEAN :
          \A r \in {loadExistingDependencies(CurrentHost, workspaceOpen, writeOk)},
             loads \in {BlockLoads(CurrentHost, writeOk)} :
               LET n == Len(r.examined)
               IN /\ r.examined = SubSeq(SnapshotOrder, 1, n)
                  /\ r.returned => /\ n >= 1
                                   /\ r.from = r.examined[n]
                                   /\ loads[r.from]
                  /\ \A k \in 1..(n - 1) : ~loads[r.examined[k]]
                  /\ ~r.returned => \A k \in 1..3 : ~loads[SnapshotOrder[k]]
    /\ justReturned.outcome = "loaded"
          => LET n == Len(justReturned.examined)
             IN /\ n >= 1
                /\ justReturned.examined = SubSeq(SnapshotOrder, 1, n)
                /\ justReturned.examined[n] = justReturned.loadedFrom

\* a call has just loaded language-dependencies.json and returned without
\* examining dependencies.json, which exists
C24_Witness ==
    /\ justReturned.outcome = "loaded"
    /\ justReturned.loadedFrom = "language"
    /\ justReturned.examined = <<"standard", "language">>
    /\ files.legacy # Absent

\* seq holds the first steps of startAnalysis, in their order
OrderedSteps(seq) == seq = SubSeq(StepOrder, 1, Len(seq))

(* C25: a startAnalysis call invokes its steps in the order load snapshot,
   select root folder, detect project type, parse. A call goes past the
   load only if loadExistingDependencies returned false; a call that
   loaded a snapshot invoked nothing else; a call that got no folder did
   not invoke detection; a call that got no project type did not invoke
   the parser registry; and the registry is invoked with the detected
   project type only. *)
C25_StepOrder ==
    /\ \A i \in 1..Len(runs) :
          /\ OrderedSteps(runs[i].steps)
          /\ ~runs[i].loaded
          /\ Len(runs[i].steps) = CASE runs[i].pc = "selectRootFolder" -> 2
                                     [] runs[i].pc = "detectProjectType" -> 3
                                     [] runs[i].pc = "parse" -> 4
          /\ runs[i].pc = "parse" <=> runs[i].projectType # NoProjectType
    /\ justReturned.outcome # "none"
          => /\ OrderedSteps(justReturned.steps)
             /\ justReturned.outcome = "loaded" <=> Len(justReturned.steps) = 1
             /\ justReturned.outcome = "noFolder" <=> Len(justReturned.steps) = 2
             /\ justReturned.outcome = "noProjectType" <=> Len(justReturned.steps) = 3
             /\ justReturned.outcome \in {"completed", "failed"}
                    <=> Len(justReturned.steps) = 4
             /\ Len(justReturned.steps) = 4 <=> justReturned.projectType # NoProjectType
             /\ Len(justReturned.steps) \in {2, 3} => justReturned.events = <<>>

\* a call has gone through the four steps and completed
C25_Witness ==
    /\ justReturned.outcome = "completed"
    /\ justReturned.steps = StepOrder
    /\ justReturned.projectType # NoProjectType

(* C27: once activate has run, every command package.json contributes has
   a handler: invoking a contributed command, Refresh Dependency Analysis
   in particular, runs a handler and is never answered with 'command not
   found'. *)
C27_ContributedCommandsHandled ==
    justReturned.trigger \in ContributedCommands
        => /\ justReturned.trigger \in RegisteredCommands
           /\ justReturned.outcome # "commandNotFound"

(* C3: after a file-system event and the debounce period the analysis run
   that follows produces the graph afresh through the parser registry; it
   does not return having reloaded a persisted snapshot. *)
C3_WatcherRunReparses ==
    justReturned.trigger = "watcher" => justReturned.outcome # "loaded"

---------------------------------------------------------------------------
(* Claims on ParserRegistry and BaseParser *)

Accepting(ps, projectType) == {i \in 1..Len(ps) : canHandle(ps[i], projectType)}

SetMin(S) == CHOOSE x \in S : \A y \in S : x <= y

CountOp(events, op) == Cardinality({k \in 1..Len(events) : events[k].op = op})

(* C4: getParser returns the earliest-registered parser whose canHandle
   accepts the project type, and none when no registered parser does. *)
C4_FirstRegisteredWins ==
    call.op = "getParser" =>
        IF Accepting(parsers, call.projectType) = {}
        THEN call.parser = NoParser
        ELSE call.parser = parsers[SetMin(Accepting(parsers, call.projectType))]

\* JavaParser2 registered before JavaParser: a java project gets JavaParser2
C4_Witness ==
    /\ call.op = "getParser"
    /\ call.projectType.language = "java"
    /\ Len(parsers) = 3
    /\ parsers[1].name = "PythonParser"
    /\ parsers[2].name = "JavaParser2"
    /\ parsers[3].name = "JavaParser"
    /\ call.parser.name = "JavaParser2"

(* C26: registry lookups are read-only and registration is append-only:
   a step changes the registered parsers only by a registerParser call,
   which puts its parser after the ones already there and leaves them in
   place and in order; and whatever parser getParser returns for a project
   type before a step, it returns for that type after it, so after any
   number of later registrations. *)
C26_AppendOnlyRegistry ==
    [][/\ parsers' # parsers
            => /\ call'.op = "registerParser"
               /\ parsers' = Append(parsers, call'.parser)
       /\ call'.op \in {"getParser", "parse"} => parsers' = parsers
       /\ \A pt \in ProjectTypes :
            getParser(parsers, pt) # NoParser
                => getParser(parsers', pt) = getParser(parsers, pt)]_vars

\* JavaParser2 has just been registered after JavaParser and a python
\* parser: a java project still gets JavaParser
C26_Witness ==
    /\ call.op = "registerParser"
    /\ call.parser.name = "JavaParser2"
    /\ Len(parsers) = 3
    /\ parsers[1].name = "JavaParser"
    /\ parsers[3] = call.parser
    /\ getParser(parsers, [name |-> "java", language |-> "java"]) = parsers[1]

(* C5: when no registered parser accepts the project type, also with an
   empty registry, getParser returns none and ParserRegistry.parse fails
   with the 'no parser available' error without calling a parser; in
   startAnalysis the error is shown as an error message and the run does
   not end as a success. *)
C5_NoParserSurfaces ==
    /\ (call.op = "getParser" /\ Accepting(parsers, call.projectType) = {})
          => call.parser = NoParser
    /\ (call.op = "parse" /\ Accepting(parsers, call.projectType) = {})
          => (call.kind = "error" /\ call.error = NoParserError /\ call.events = <<>>)
    /\ (justReturned.projectType # NoProjectType
            /\ Accepting(parsers, justReturned.projectType) = {})
          => /\ justReturned.outcome = "failed"
             /\ justReturned.message = "error: Error analyzing dependencies"
             /\ justReturned.error = NoParserError
             /\ justReturned.events = <<>>

\* startAnalysis has reported the error of an empty registry
C5_Witness ==
    /\ parsers = <<>>
    /\ justReturned.outcome = "failed"
    /\ justReturned.error = NoParserError

(* C6: with parsers for two distinct languages registered, in either order,
   ParserRegistry.parse of a project of one of them calls only parsers of
   that language and settles as that parser's parse does. *)
C6_DispatchByLanguage ==
    (/\ call.op = "parse"
     /\ \E i, j \in 1..Len(parsers) :
            /\ parsers[i].language # parsers[j].language
            /\ parsers[j].language = call.projectType.language)
    => /\ call.events # <<>>
       /\ \A k \in 1..Len(call.events) :
            call.events[k].parser.language = call.projectType.language
       /\ IF call.extraction.kind = "value"
          THEN call.kind = "graph" /\ call.graph = convertDependencies(call.extraction.ir)
          ELSE call.kind = "error" /\ call.error = call.extraction.error

\* JavaParser registered before PythonParser, a python project parsed
C6_Witness ==
    /\ call.op = "parse"
    /\ Len(parsers) = 2
    /\ parsers[1].name = "JavaParser"
    /\ parsers[2].name = "PythonParser"
    /\ call.projectType.language = "python"
    /\ call.kind = "graph"
    /\ call.events[1] = Event("parse", parsers[2], NoIR)

(* C7: ParserRegistry.parse calls the selected parser's parse exactly once,
   settles with the graph it returned or the error it threw, and neither
   retries nor falls back to another parser; the timing lines change
   neither outcome. *)
C7_TransparentDelegation ==
    (call.op = "parse" /\ call.parser # NoParser)
    => /\ CountOp(call.events, "parse") = 1
       /\ CountOp(call.events, "parseToLanguageSpecific") = 1
       /\ call.events[1] = Event("parse", call.parser, NoIR)
       /\ IF call.extraction.kind = "value"
          THEN /\ call.kind = "graph"
               /\ call.graph = convertDependencies(call.extraction.ir)
               /\ call.logged = "completed"
          ELSE /\ call.kind = "error"
               /\ call.error = call.extraction.error
               /\ call.logged = "failed"

\* the first of two java parsers failed and its error came back unchanged
C7_Witness ==
    /\ call.op = "parse"
    /\ Len(parsers) = 2
    /\ parsers[1].name = "JavaParser"
    /\ parsers[2].name = "JavaParser2"
    /\ call.projectType.language = "java"
    /\ call.kind = "error"
    /\ call.error = "unreadable root"
    /\ call.logged = "failed"

(* C8: BaseParser.parse calls the conversion exactly once, after the
   extraction step has completed and on the value it produced; when
   extraction fails the conversion is not called and the error reaches the
   caller. *)
C8_ExtractThenConvert ==
    call.op = "Parser.parse"
    => /\ call.events # <<>>
       /\ call.events[1] = Event("parseToLanguageSpecific", call.parser, NoIR)
       /\ CountOp(call.events, "parseToLanguageSpecific") = 1
       /\ IF call.extraction.kind = "value"
          THEN /\ CountOp(call.events, "convertDependencies") = 1
               /\ call.events[Len(call.events)] =
                    Event("convertDependencies", call.parser, call.extraction.ir)
               /\ call.kind = "graph"
               /\ call.graph = convertDependencies(call.extraction.ir)
          ELSE /\ CountOp(call.events, "convertDependencies") = 0
               /\ call.kind = "error"
               /\ call.error = call.extraction.error

\* an extraction with a dependency outside the analysed paths was converted
C8_Witness ==
    /\ call.op = "Parser.parse"
    /\ call.extraction.kind = "value"
    /\ call.extraction.ir = IR(<<"A">>, <<[source |-> "A", target |-> "B"]>>)
    /\ Len(call.events) = 2
    /\ call.graph = Graph(<<"A">>, <<>>)

(* C20: canHandle returns true exactly when the project type's language is
   the parser's language; a call changes neither the parser, nor the
   project type, nor the registry, and a second call with the same
   argument returns what the first returned. *)
C20_CanHandlePure ==
    [][call'.op = "canHandle"
          => /\ call'.results[1] =
                    (call'.given.projectType.language = call'.given.parser.language)
             /\ call'.results[2] = call'.results[1]
             /\ call'.parser = call'.given.parser
             /\ call'.projectType = call'.given.projectType
             /\ parsers' = parsers]_vars

\* a registered parser was asked twice about a project type of another
\* language
C20_Witness ==
    /\ call.op = "canHandle"
    /\ call.results = <<FALSE, FALSE>>
    /\ \E k \in 1..Len(parsers) : parsers[k] = call.given.parser
    /\ call.given.projectType.language # call.given.parser.language

=============================================================================
